---- MODULE Spec2Model ----
(***************************************************************************)
(* A model of backend/scripts/ansi_processor.py: the ANSIProcessor class   *)
(* (a character grid with a cursor, driven by ANSI escape sequences) and   *)
(* the scanner loop of process_content.                                    *)
(*                                                                         *)
(* A character is a one-character string; the characters that TLA+ cannot  *)
(* write as such are the tags ESC (0x1B), BEL (0x07), NBSP (U+00A0) and    *)
(* GRAVE (0x60).                                                           *)
(* A Python str is a sequence of characters.  Indices of the code are      *)
(* 0-based and are kept 0-based here: the code's s[k] is s[k + 1] below.   *)
(***************************************************************************)
EXTENDS Integers, Sequences, FiniteSets, TLC

ESC == "ESC"
BEL == "BEL"
NBSP == "NBSP"
GRAVE == "GRAVE"

\* The printable ASCII characters, code 32 (space) to code 126 (~), in order.
AsciiPrintable ==
    << " ", "!", "\"", "#", "$", "%", "&", "'", "(", ")", "*", "+", ",", "-",
       ".", "/", "0", "1", "2", "3", "4", "5", "6", "7", "8", "9", ":", ";",
       "<", "=", ">", "?", "@", "A", "B", "C", "D", "E", "F", "G", "H", "I",
       "J", "K", "L", "M", "N", "O", "P", "Q", "R", "S", "T", "U", "V", "W",
       "X", "Y", "Z", "[", "\\", "]", "^", "_", GRAVE, "a", "b", "c", "d", "e",
       "f", "g", "h", "i", "j", "k", "l", "m", "n", "o", "p", "q", "r", "s",
       "t", "u", "v", "w", "x", "y", "z", "{", "|", "}", "~" >>

\* ord(char)
Ord(ch) ==
    CASE ch = BEL -> 7
      [] ch = "\t" -> 9
      [] ch = "\n" -> 10
      [] ch = "\r" -> 13
      [] ch = ESC -> 27
      [] ch = NBSP -> 160
      [] OTHER -> 31 + (CHOOSE k \in 1..Len(AsciiPrintable) : AsciiPrintable[k] = ch)

\* [0-9], [0-9;], [a-zA-Z], [hl], [AB0] of ansi_pattern
Digits == {"0", "1", "2", "3", "4", "5", "6", "7", "8", "9"}
DigitsSemi == Digits \cup {";"}
Letters == {AsciiPrintable[k] : k \in (34..59) \cup (66..91)}
ModeLetters == {"h", "l"}
Designators == {"A", "B", "0"}

\* The terminators whose branch hands csi_content[:-1] to int()
NumericCommands == {"A", "B", "C", "D", "G", "K", "J"}

\* The characters str.rstrip() removes, among those a cell or a line can hold.
Whitespace == {" ", "\t", "\n", "\r", NBSP}

\* The first index j >= k (1-based) of s that is past the end of s or holds a
\* character outside set: where a greedy run  [set]*  started at k stops.
RECURSIVE RunEnd(_, _, _)
RunEnd(s, k, set) ==
    IF k <= Len(s) /\ s[k] \in set THEN RunEnd(s, k + 1, set) ELSE k

\* The four alternatives of ansi_pattern, each giving the length of its match
\* at the start of s, or 0.  The run classes and the class that must follow
\* them are disjoint, so backtracking into a run never finds another match.
MatchCsi(s) ==
    IF Len(s) >= 2 /\ s[1] = ESC /\ s[2] = "["
    THEN LET j == RunEnd(s, 3, DigitsSemi)
         IN  IF j <= Len(s) /\ s[j] \in Letters THEN j ELSE 0
    ELSE 0

MatchCsiPrivate(s) ==
    IF Len(s) >= 3 /\ s[1] = ESC /\ s[2] = "[" /\ s[3] = "?"
    THEN LET j == RunEnd(s, 4, DigitsSemi)
         IN  IF j <= Len(s) /\ s[j] \in Letters THEN j ELSE 0
    ELSE 0

MatchPrivateMode(s) ==
    IF Len(s) >= 3 /\ s[1] = ESC /\ s[2] = "[" /\ s[3] = "?"
    THEN LET j == RunEnd(s, 4, Digits)
         IN  IF j <= Len(s) /\ s[j] \in ModeLetters THEN j ELSE 0
    ELSE 0

\* ansi_pattern without its last alternative
MatchCharset_absent(s) == 0

MatchCharset(s) ==
    IF Len(s) >= 3 /\ s[1] = ESC /\ s[2] = "(" /\ s[3] \in Designators
    THEN 3
    ELSE 0

\* re.match(ansi_pattern, s): the first alternative that matches wins; the
\* result is the length of match.group(0), 0 when there is no match.
ReMatch(s) ==
    IF MatchCsi(s) > 0 THEN MatchCsi(s)
    ELSE IF MatchCsiPrivate(s) > 0 THEN MatchCsiPrivate(s)
    ELSE IF MatchPrivateMode(s) > 0 THEN MatchPrivateMode(s)
    ELSE MatchCharset(s)

\* int() never raising
IsInt_lenient(s) == TRUE

\* int(s) succeeds, for a string of the characters the pattern lets through
\* (digits, ';' and '?'), exactly when s is a non-empty run of digits.
IsInt(s) == Len(s) >= 1 /\ \A k \in 1..Len(s) : s[k] \in Digits

DigitValue(ch) == Ord(ch) - 48

\* int(s) for such a string
RECURSIVE ParseInt(_)
ParseInt(s) ==
    IF Len(s) = 0 THEN 0
    ELSE 10 * ParseInt(SubSeq(s, 1, Len(s) - 1)) + DigitValue(s[Len(s)])

\* s.split(';'): always at least one piece, pieces may be empty.
RECURSIVE Split(_)
Split(s) ==
    LET j == RunEnd(s, 1, {c \in {s[k] : k \in 1..Len(s)} : c # ";"})
    IN  IF j > Len(s) THEN << s >>
        ELSE << SubSeq(s, 1, j - 1) >> \o Split(SubSeq(s, j + 1, Len(s)))

Max(a, b) == IF a >= b THEN a ELSE b
Min(a, b) == IF a <= b THEN a ELSE b

\* [' '] * n
Blank(n) == [k \in 1..n |-> " "]

\* self.max_cols at construction, and the buffer added on widening.
InitMaxCols == 200
ColBuffer == 50

(***************************************************************************)
(* The emulator.  Its methods are operators on a record                    *)
(*   st = [screen, cursor_row, cursor_col, max_cols]                       *)
(* giving the record after the call.                                       *)
(***************************************************************************)

\* ensure_screen_size widening only the row asked for
ensure_screen_size_one_row(st, row, col) ==
    LET rows == IF Len(st.screen) <= row
                THEN st.screen \o [k \in 1..(row + 1 - Len(st.screen)) |-> Blank(st.max_cols)]
                ELSE st.screen
    IN  IF col >= st.max_cols
        THEN LET new_cols == col + ColBuffer
             IN  [st EXCEPT !.screen = [r \in 1..Len(rows) |->
                                           IF r = row + 1
                                           THEN rows[r] \o Blank(new_cols - Len(rows[r]))
                                           ELSE rows[r]],
                            !.max_cols = new_cols]
        ELSE [st EXCEPT !.screen = rows]

\* ensure_screen_size replacing the rows by fresh ones on widening
ensure_screen_size_fresh_rows(st, row, col) ==
    LET rows == IF Len(st.screen) <= row
                THEN st.screen \o [k \in 1..(row + 1 - Len(st.screen)) |-> Blank(st.max_cols)]
                ELSE st.screen
    IN  IF col >= st.max_cols
        THEN LET new_cols == col + ColBuffer
             IN  [st EXCEPT !.screen = [r \in 1..Len(rows) |-> Blank(new_cols)],
                            !.max_cols = new_cols]
        ELSE [st EXCEPT !.screen = rows]

ensure_screen_size(st, row, col) ==
    LET rows == IF Len(st.screen) <= row
                THEN st.screen \o [k \in 1..(row + 1 - Len(st.screen)) |-> Blank(st.max_cols)]
                ELSE st.screen
    IN  IF col >= st.max_cols
        THEN LET new_cols == col + ColBuffer
             IN  [st EXCEPT !.screen = [r \in 1..Len(rows) |->
                                           rows[r] \o Blank(new_cols - Len(rows[r]))],
                            !.max_cols = new_cols]
        ELSE [st EXCEPT !.screen = rows]

set_cursor(st, row, col) ==
    LET moved == [st EXCEPT !.cursor_row = Max(0, row), !.cursor_col = Max(0, col)]
    IN  ensure_screen_size(moved, moved.cursor_row, moved.cursor_col)

\* move_cursor_up without its max(0, ...)
move_cursor_up_unclamped(st, lines) ==
    [st EXCEPT !.cursor_row = st.cursor_row - lines]

move_cursor_up(st, lines) ==
    [st EXCEPT !.cursor_row = Max(0, st.cursor_row - lines)]

\* move_cursor_down without growing the grid
move_cursor_down_no_growth(st, lines) ==
    [st EXCEPT !.cursor_row = st.cursor_row + lines]

move_cursor_down(st, lines) ==
    LET moved == [st EXCEPT !.cursor_row = st.cursor_row + lines]
    IN  ensure_screen_size(moved, moved.cursor_row, moved.cursor_col)

move_cursor_forward(st, cols) ==
    LET moved == [st EXCEPT !.cursor_col = st.cursor_col + cols]
    IN  ensure_screen_size(moved, moved.cursor_row, moved.cursor_col)

\* move_cursor_backward growing the grid to the cursor as the forward move does
move_cursor_backward_grows(st, cols) ==
    LET moved == [st EXCEPT !.cursor_col = Max(0, st.cursor_col - cols)]
    IN  ensure_screen_size(moved, moved.cursor_row, moved.cursor_col)

move_cursor_backward(st, cols) ==
    [st EXCEPT !.cursor_col = Max(0, st.cursor_col - cols)]

\* The G branch of process_escape_sequence
move_to_column(st, col) ==
    LET moved == [st EXCEPT !.cursor_col = Max(0, col - 1)]
    IN  ensure_screen_size(moved, moved.cursor_row, moved.cursor_col)

\* The columns cleared, mode 1 stopping before the cursor column
ClearedColumns_before_cursor(mode, cursor_col, len) ==
    CASE mode = 0 -> cursor_col .. (len - 1)
      [] mode = 1 -> 0 .. (Min(cursor_col, len) - 1)
      [] mode = 2 -> 0 .. (len - 1)
      [] OTHER -> {}

\* The columns (0-based) clear_line blanks in a row of length len.
ClearedColumns(mode, cursor_col, len) ==
    CASE mode = 0 -> cursor_col .. (len - 1)
      [] mode = 1 -> 0 .. (Min(cursor_col + 1, len) - 1)
      [] mode = 2 -> 0 .. (len - 1)
      [] OTHER -> {}

\* clear_line also returning the cursor to column 0
clear_line_homes_cursor(st, mode) ==
    IF st.cursor_row < Len(st.screen)
    THEN LET row == st.screen[st.cursor_row + 1]
             cols == ClearedColumns(mode, st.cursor_col, Len(row))
         IN  [st EXCEPT !.screen[st.cursor_row + 1] =
                            [k \in 1..Len(row) |-> IF (k - 1) \in cols THEN " " ELSE row[k]],
                        !.cursor_col = 0]
    ELSE st

clear_line(st, mode) ==
    IF st.cursor_row < Len(st.screen)
    THEN LET row == st.screen[st.cursor_row + 1]
             cols == ClearedColumns(mode, st.cursor_col, Len(row))
         IN  [st EXCEPT !.screen[st.cursor_row + 1] =
                            [k \in 1..Len(row) |-> IF (k - 1) \in cols THEN " " ELSE row[k]]]
    ELSE st

\* clear_screen leaving the cursor where it is
clear_screen_keeps_cursor(st, mode) ==
    IF mode = 2
    THEN [st EXCEPT !.screen = << >>]
    ELSE st

\* clear_screen clearing whatever the mode
clear_screen_any_mode(st, mode) ==
    [st EXCEPT !.screen = << >>, !.cursor_row = 0, !.cursor_col = 0]

clear_screen(st, mode) ==
    IF mode = 2
    THEN [st EXCEPT !.screen = << >>, !.cursor_row = 0, !.cursor_col = 0]
    ELSE st

\* insert_text inserting the character before the cell instead of replacing it
insert_text_shifts(st, char) ==
    IF char = "\n"
    THEN LET moved == [st EXCEPT !.cursor_row = st.cursor_row + 1, !.cursor_col = 0]
         IN  ensure_screen_size(moved, moved.cursor_row, moved.cursor_col)
    ELSE IF char = "\r"
    THEN [st EXCEPT !.cursor_col = 0]
    ELSE IF char = "\t"
    THEN LET moved == [st EXCEPT !.cursor_col = ((st.cursor_col \div 8) + 1) * 8]
         IN  ensure_screen_size(moved, moved.cursor_row, moved.cursor_col)
    ELSE IF Ord(char) >= 32
    THEN LET grown == ensure_screen_size(st, st.cursor_row, st.cursor_col)
             row == grown.screen[st.cursor_row + 1]
         IN  [grown EXCEPT !.screen[st.cursor_row + 1] =
                               SubSeq(row, 1, st.cursor_col) \o << char >>
                                   \o SubSeq(row, st.cursor_col + 1, Len(row) - 1),
                           !.cursor_col = st.cursor_col + 1]
    ELSE st

\* insert_text with a tab rounding the column up to a multiple of 8, so that
\* a column that is one already stays
insert_text_tab_rounds(st, char) ==
    IF char = "\n"
    THEN LET moved == [st EXCEPT !.cursor_row = st.cursor_row + 1, !.cursor_col = 0]
         IN  ensure_screen_size(moved, moved.cursor_row, moved.cursor_col)
    ELSE IF char = "\r"
    THEN [st EXCEPT !.cursor_col = 0]
    ELSE IF char = "\t"
    THEN LET moved == [st EXCEPT !.cursor_col = ((st.cursor_col + 7) \div 8) * 8]
         IN  ensure_screen_size(moved, moved.cursor_row, moved.cursor_col)
    ELSE IF Ord(char) >= 32
    THEN LET grown == ensure_screen_size(st, st.cursor_row, st.cursor_col)
         IN  [grown EXCEPT !.screen[st.cursor_row + 1][st.cursor_col + 1] = char,
                           !.cursor_col = st.cursor_col + 1]
    ELSE st

\* One pass of the loop of insert_text: the text is always one character.
insert_text(st, char) ==
    IF char = "\n"
    THEN LET moved == [st EXCEPT !.cursor_row = st.cursor_row + 1, !.cursor_col = 0]
         IN  ensure_screen_size(moved, moved.cursor_row, moved.cursor_col)
    ELSE IF char = "\r"
    THEN [st EXCEPT !.cursor_col = 0]
    ELSE IF char = "\t"
    THEN LET moved == [st EXCEPT !.cursor_col = ((st.cursor_col \div 8) + 1) * 8]
         IN  ensure_screen_size(moved, moved.cursor_row, moved.cursor_col)
    ELSE IF Ord(char) >= 32
    THEN LET grown == ensure_screen_size(st, st.cursor_row, st.cursor_col)
         IN  [grown EXCEPT !.screen[st.cursor_row + 1][st.cursor_col + 1] = char,
                           !.cursor_col = st.cursor_col + 1]
    ELSE st

\* any(char != ' ' for char in row)
HasContent(row) == \E k \in 1..Len(row) : row[k] # " "

\* last_content_row of get_final_text (0-based), -1 when no row has content
LastContentRow(scr) ==
    IF \E r \in 1..Len(scr) : HasContent(scr[r])
    THEN (CHOOSE r \in 1..Len(scr) :
              HasContent(scr[r]) /\ \A q \in (r + 1)..Len(scr) : ~HasContent(scr[q])) - 1
    ELSE -1

\* last_char of get_final_text (0-based), -1 when the row has no content
LastChar(row) ==
    IF HasContent(row)
    THEN (CHOOSE k \in 1..Len(row) :
              row[k] # " " /\ \A q \in (k + 1)..Len(row) : row[q] = " ") - 1
    ELSE -1

\* str.rstrip(): s up to its last character that is not whitespace
RStrip(s) ==
    IF \E k \in 1..Len(s) : s[k] \notin Whitespace
    THEN SubSeq(s, 1, CHOOSE k \in 1..Len(s) :
                          s[k] \notin Whitespace /\ \A q \in (k + 1)..Len(s) : s[q] \in Whitespace)
    ELSE << >>

\* str.strip() in the place of str.rstrip()
RowLine_strip(row) ==
    LET last_char == LastChar(row)
        line == IF last_char >= 0 THEN SubSeq(row, 1, last_char + 1) ELSE << >>
        kept == RStrip(line)
    IN  IF kept = << >> THEN kept
        ELSE SubSeq(kept, CHOOSE k \in 1..Len(kept) :
                              kept[k] \notin Whitespace /\ \A q \in 1..(k - 1) : kept[q] \in Whitespace,
                    Len(kept))

\* The line get_final_text appends for a row
RowLine(row) ==
    LET last_char == LastChar(row)
        line == IF last_char >= 0 THEN SubSeq(row, 1, last_char + 1) ELSE << >>
    IN  RStrip(line)

\* while result_lines and not result_lines[-1]: result_lines.pop()
DropTrailingEmpty(lines) ==
    IF \E k \in 1..Len(lines) : lines[k] # << >>
    THEN SubSeq(lines, 1, CHOOSE k \in 1..Len(lines) :
                              lines[k] # << >> /\ \A q \in (k + 1)..Len(lines) : lines[q] = << >>)
    ELSE << >>

\* '\n'.join(lines), joining the two halves of lines
RECURSIVE Join(_)
Join(lines) ==
    IF Len(lines) = 0 THEN << >>
    ELSE IF Len(lines) = 1 THEN lines[1]
    ELSE LET h == Len(lines) \div 2
         IN  Join(SubSeq(lines, 1, h)) \o << "\n" >> \o Join(SubSeq(lines, h + 1, Len(lines)))

get_final_text(scr) ==
    LET last_content_row == LastContentRow(scr)
        result_lines == [r \in 1..(last_content_row + 1) |-> RowLine(scr[r])]
    IN  Join(DropTrailingEmpty(result_lines))

(***************************************************************************)
(* The inputs of process_content that are explored: a prefix that brings   *)
(* the emulator into some state, then up to MaxTokens tokens, each a       *)
(* character or an escape sequence; and the end-to-end inputs.             *)
(***************************************************************************)
MaxTokens == 1

\* ESC [ params letter
Csi(params, letter) == << ESC, "[" >> \o params \o << letter >>

\* str(InitMaxCols) and str(InitMaxCols + 1): the column parameters (1-based)
\* of the last column of a fresh grid and of the first column beyond it.
RECURSIVE Decimal(_)
Decimal(n) ==
    IF n < 10 THEN << AsciiPrintable[17 + n] >>
    ELSE Decimal(n \div 10) \o << AsciiPrintable[17 + (n % 10)] >>
LastColText == Decimal(InitMaxCols)
BeyondColText == Decimal(InitMaxCols + 1)

CharTokens == { << c >> : c \in {"A", " ", NBSP, "\n", "\r", "\t", BEL} }

PositionTokens ==
    { Csi(p, "H") : p \in { << >>, << "2" >>, << ";", "3" >>, << "2", ";" >>,
                             << "2", ";", "3" >>, << "0", ";", "0" >>,
                             << "3", ";" >> \o BeyondColText } }
    \cup { Csi(<< "2", ";", "3" >>, "f"), Csi(<< >>, "f") }

MoveTokens ==
    { Csi(p, c) : p \in { << >>, << "0" >>, << "2" >>, << "9" >> },
                  c \in {"A", "B", "C", "D"} }
    \cup { Csi(p, "G") : p \in { << >>, << "0" >>, << "3" >>, LastColText, BeyondColText } }

EraseTokens ==
    { Csi(p, "K") : p \in { << >>, << "0" >>, << "1" >>, << "2" >>, << "3" >> } }
    \cup { Csi(p, "J") : p \in { << >>, << "0" >>, << "1" >>, << "2" >> } }

MalformedTokens ==
    { Csi(<< "1", ";", "2" >>, c) : c \in NumericCommands }
    \cup { Csi(<< ";" >>, "A"), Csi(<< "?", "1" >>, "H"), Csi(<< "?", "2" >>, "J"),
           Csi(<< "?", "2" >>, "K"), Csi(<< "?", "3" >>, "C") }

DiscardedTokens ==
    { Csi(p, "m") : p \in { << >>, << "3", "1" >>, << "1", ";", "3", "1" >> } }
    \cup { Csi(<< "6" >>, "n"), Csi(<< "1", ";", "5" >>, "r"),
           Csi(<< "?", "2", "5" >>, "h"), Csi(<< "?", "2", "5" >>, "l"),
           Csi(<< "?", "6" >>, "n"),
           << ESC, "(", "A" >>, << ESC, "(", "B" >>, << ESC, "(", "0" >> }

UnmatchedTokens ==
    { << ESC >>, << ESC, "[", "1", "2" >>, << ESC, "(", "C" >>, << ESC, ESC >> }

Tokens ==
    CharTokens \cup PositionTokens \cup MoveTokens \cup EraseTokens
        \cup MalformedTokens \cup DiscardedTokens \cup UnmatchedTokens

\* The concatenations of at most n tokens
RECURSIVE TokenRuns(_)
TokenRuns(n) ==
    IF n = 0 THEN { << >> }
    ELSE LET shorter == TokenRuns(n - 1)
         IN  shorter \cup { r \o t : r \in shorter, t \in Tokens }

Prefixes ==
    { << >>,
      << "A" >>,
      << "A", "B", "\n", "A", " ", "B" >>,
      << "A", "\n", "\n", "B" >>,
      << "A", NBSP, "\n", NBSP >>,
      << "A", "\n", "B", "\n", "A", "B" >> \o Csi(<< "2", ";", "2" >>, "H"),
      << "A" >> \o Csi(<< "3" >>, "B"),
      Csi(LastColText, "G") \o << "A" >>,
      << "A", "\n" >> \o Csi(BeyondColText, "G") \o << "B" >>,
      << "A" >> \o Csi(BeyondColText, "G") \o Csi(<< "2" >>, "J"),
      << "A", "B", "A" >> \o Csi(<< "2" >>, "D") }

\* The end-to-end inputs
HelloWorld ==
    << "H", "e", "l", "l", "o" >> \o Csi(<< "2" >>, "J") \o << " ", "W", "o", "r", "l", "d" >>
LineClear == << "A" >> \o Csi(<< "2" >>, "K") \o << " ", "B" >>
LineOverwrite ==
    << "L", "i", "n", "e", "1" >> \o Csi(<< "1", ";", "1" >>, "H") \o << "L", "i", "n", "e", "2" >>
ColouredText == Csi(<< "3", "1" >>, "m") \o << "R", "e", "d" >>

EndToEnd == { HelloWorld, LineClear, LineOverwrite, ColouredText }

\* The sequences that are also tried with text right behind them
FollowedTokens ==
    PositionTokens \cup DiscardedTokens
        \cup { Csi(<< "2" >>, "J"), Csi(<< "2" >>, "K"), Csi(<< "1", ";", "2" >>, "A") }

\* A discarded sequence in the middle of what would be a sequence without it:
\* "start" stops short of a sequence, "rest" would have finished it.
Unfinished ==
    { [start |-> << ESC >>, rest |-> << "[", "2", "J" >>],
      [start |-> << ESC, "[" >>, rest |-> << "2", "J" >>],
      [start |-> << ESC, "[", "?" >>, rest |-> << "2", "K" >>],
      [start |-> << ESC, "(" >>, rest |-> << "B" >>] }
Interrupted ==
    { << "B" >> \o u.start \o s \o u.rest :
        u \in Unfinished, s \in { Csi(<< "3", "1" >>, "m"), << ESC, "(", "B" >> } }

\* CSI sequences with '?' before their parameters, for every letter that
\* has a branch of its own and for one that has none, with text behind
PrivateTexts ==
    { << "?" >>, << "?", "1" >>, << "?", "2" >>, << "?", "3" >>, << "?", "6" >>,
      << "?", "2", "5" >>, << "?", "2", ";", "5" >> }
Private ==
    { p \o Csi(q, c) \o << "B" >> :
        p \in { << >>, << "A", "B", "\n", "A", " ", "B" >> },
        q \in { << "?" >>, << "?", "2" >>, << "?", "2", ";", "5" >> },
        c \in {"H", "f", "m", "n"} \cup NumericCommands }

\* CSI sequences with a letter that has no branch, with text behind
IgnoredTexts == { << >>, << "6" >>, << "1", ";", "5" >>, << ";" >>, << ";", ";" >> }
IgnoredLetters == {"n", "r", "h", "z", "E"}
Ignored ==
    { p \o Csi(q, c) \o << "B" >> :
        p \in { << >>, << "A", "B", "\n", "A", " ", "B" >> },
        q \in IgnoredTexts,
        c \in IgnoredLetters }

Inputs ==
    { p \o r : p \in Prefixes, r \in TokenRuns(MaxTokens) }
        \cup { p \o t \o << "B" >> : p \in Prefixes, t \in FollowedTokens }
        \cup EndToEnd
        \cup Interrupted
        \cup Private
        \cup Ignored

\* What a call that has not returned has returned: no text at all.
None == << "None" >>

(***************************************************************************)
(* process_content as a state machine: one step per pass of its loop.      *)
(***************************************************************************)
VARIABLES
    screen,       \* self.screen: the rows, each a sequence of characters
    cursor_row,   \* self.cursor_row
    cursor_col,   \* self.cursor_col
    max_cols,     \* self.max_cols
    content,      \* the argument of process_content
    i,            \* the index of its loop
    pc,           \* "run": in the loop; "done": returned; "failed": int() raised
    result,       \* what process_content returned, None before it returns
    text          \* what the caller's own get_final_text() returned, None before

vars == << screen, cursor_row, cursor_col, max_cols, content, i, pc, result, text >>
grid == << screen, cursor_row, cursor_col, max_cols >>

Init ==
    /\ screen = << >>
    /\ cursor_row = 0
    /\ cursor_col = 0
    /\ max_cols = InitMaxCols
    /\ content \in Inputs
    /\ i = 0
    /\ pc = "run"
    /\ result = None
    /\ text = None

self == [screen |-> screen, cursor_row |-> cursor_row,
         cursor_col |-> cursor_col, max_cols |-> max_cols]

Becomes(st) ==
    /\ screen' = st.screen
    /\ cursor_row' = st.cursor_row
    /\ cursor_col' = st.cursor_col
    /\ max_cols' = st.max_cols

\* content[i:]
Rest == SubSeq(content, i + 1, Len(content))

InLoop == pc = "run" /\ i < Len(content)

\* The loop is at an escape marker that starts a match of ansi_pattern.
AtSequence ==
    /\ InLoop
    /\ content[i + 1] = ESC
    /\ i + 1 < Len(content)
    /\ ReMatch(Rest) > 0

\* len(sequence), and sequence[1:], the argument of process_escape_sequence
SequenceLen == ReMatch(Rest)
sequence == SubSeq(content, i + 2, i + SequenceLen)

IsCsi == sequence[1] = "["
csi_content == Tail(sequence)
Terminator == csi_content[Len(csi_content)]
\* csi_content[:-1] with a '?' at its start left out
ParamText_skips_mark ==
    IF csi_content[1] = "?"
    THEN SubSeq(csi_content, 2, Len(csi_content) - 1)
    ELSE SubSeq(csi_content, 1, Len(csi_content) - 1)

\* csi_content[:-1]
ParamText == SubSeq(csi_content, 1, Len(csi_content) - 1)

\* The H/f branch: params, and the two strings handed to int()
PositionParams ==
    IF ParamText # << >> THEN Split(ParamText) ELSE << << "1" >>, << "1" >> >>
RowText ==
    IF PositionParams[1] # << >> THEN PositionParams[1] ELSE << "1" >>
ColText ==
    IF Len(PositionParams) > 1 /\ PositionParams[2] # << >>
    THEN PositionParams[2]
    ELSE << "1" >>

\* int(csi_content[:-1]) if csi_content[:-1] else default
NumberOr(default) == IF ParamText # << >> THEN ParseInt(ParamText) ELSE default

\* Some int() of the branch taken raises ValueError.
IntRaises ==
    \/ Terminator \in {"H", "f"} /\ (~IsInt(RowText) \/ ~IsInt(ColText))
    \/ Terminator \in NumericCommands /\ ParamText # << >> /\ ~IsInt(ParamText)

\* A matched sequence moving the index by one character only
Consumed_one ==
    /\ i' = i + 1
    /\ UNCHANGED << content, pc, result, text >>

Consumed ==
    /\ i' = i + SequenceLen
    /\ UNCHANGED << content, pc, result, text >>

\* The H/f branch without the conversion to 0-based
CursorPosition_one_based ==
    /\ AtSequence /\ IsCsi /\ Terminator \in {"H", "f"} /\ ~IntRaises
    /\ Becomes(set_cursor(self, ParseInt(RowText), ParseInt(ColText)))
    /\ Consumed

CursorPosition ==
    /\ AtSequence /\ IsCsi /\ Terminator \in {"H", "f"} /\ ~IntRaises
    /\ Becomes(set_cursor(self, ParseInt(RowText) - 1, ParseInt(ColText) - 1))
    /\ Consumed

CursorUp ==
    /\ AtSequence /\ IsCsi /\ Terminator = "A" /\ ~IntRaises
    /\ Becomes(move_cursor_up(self, NumberOr(1)))
    /\ Consumed

CursorDown ==
    /\ AtSequence /\ IsCsi /\ Terminator = "B" /\ ~IntRaises
    /\ Becomes(move_cursor_down(self, NumberOr(1)))
    /\ Consumed

CursorForward ==
    /\ AtSequence /\ IsCsi /\ Terminator = "C" /\ ~IntRaises
    /\ Becomes(move_cursor_forward(self, NumberOr(1)))
    /\ Consumed

CursorBackward ==
    /\ AtSequence /\ IsCsi /\ Terminator = "D" /\ ~IntRaises
    /\ Becomes(move_cursor_backward(self, NumberOr(1)))
    /\ Consumed

CursorColumn ==
    /\ AtSequence /\ IsCsi /\ Terminator = "G" /\ ~IntRaises
    /\ Becomes(move_to_column(self, NumberOr(1)))
    /\ Consumed

EraseInLine ==
    /\ AtSequence /\ IsCsi /\ Terminator = "K" /\ ~IntRaises
    /\ Becomes(clear_line(self, NumberOr(0)))
    /\ Consumed

EraseInScreen ==
    /\ AtSequence /\ IsCsi /\ Terminator = "J" /\ ~IntRaises
    /\ Becomes(clear_screen(self, NumberOr(0)))
    /\ Consumed

\* The m branch: pass
Style ==
    /\ AtSequence /\ IsCsi /\ Terminator = "m"
    /\ Consumed
    /\ UNCHANGED grid

\* The parameter of a sequence without a branch being parsed all the same
OtherSequence_parses ==
    /\ AtSequence
    /\ ~IsCsi \/ Terminator \notin ({"H", "f", "m"} \cup NumericCommands)
    /\ IF IsCsi /\ ParamText # << >> /\ ~IsInt(ParamText)
       THEN /\ pc' = "failed"
            /\ UNCHANGED << grid, content, i, result, text >>
       ELSE /\ Consumed
            /\ UNCHANGED grid

\* A sequence no branch of process_escape_sequence takes
OtherSequence ==
    /\ AtSequence
    /\ ~IsCsi \/ Terminator \notin ({"H", "f", "m"} \cup NumericCommands)
    /\ Consumed
    /\ UNCHANGED grid

\* int() raises ValueError: nothing catches it before main, the run is over.
ParseFailure ==
    /\ AtSequence /\ IsCsi /\ IntRaises
    /\ pc' = "failed"
    /\ UNCHANGED << grid, content, i, result, text >>

\* Regular character - add to screen
InsertText ==
    /\ InLoop /\ ~AtSequence
    /\ content[i + 1] # ESC
    /\ Becomes(insert_text(self, content[i + 1]))
    /\ i' = i + 1
    /\ UNCHANGED << content, pc, result, text >>

\* SkipEscape stepping over the character behind the marker as well
SkipEscape_swallows ==
    /\ InLoop /\ ~AtSequence
    /\ content[i + 1] = ESC
    /\ i' = i + 2
    /\ UNCHANGED << grid, content, pc, result, text >>

\* An escape marker that starts no sequence is stepped over.
SkipEscape ==
    /\ InLoop /\ ~AtSequence
    /\ content[i + 1] = ESC
    /\ i' = i + 1
    /\ UNCHANGED << grid, content, pc, result, text >>

\* return self.get_final_text()
Return ==
    /\ pc = "run" /\ i >= Len(content)
    /\ result' = get_final_text(screen)
    /\ pc' = "done"
    /\ UNCHANGED << grid, content, i, text >>

\* get_final_text dropping the rows behind the last row with content
GetFinalText_trims_screen ==
    /\ pc = "done"
    /\ text' = get_final_text(screen)
    /\ screen' = SubSeq(screen, 1, LastContentRow(screen) + 1)
    /\ UNCHANGED << cursor_row, cursor_col, max_cols, content, i, pc, result >>

\* The caller, process_content having returned, calls get_final_text() itself.
GetFinalText ==
    /\ pc = "done"
    /\ text' = get_final_text(screen)
    /\ UNCHANGED << grid, content, i, pc, result >>

Next ==
    \/ CursorPosition
    \/ CursorUp
    \/ CursorDown
    \/ CursorForward
    \/ CursorBackward
    \/ CursorColumn
    \/ EraseInLine
    \/ EraseInScreen
    \/ Style
    \/ OtherSequence
    \/ ParseFailure
    \/ InsertText
    \/ SkipEscape
    \/ Return
    \/ GetFinalText

Spec == Init /\ [][Next]_vars

(***************************************************************************)
(* Properties.                                                             *)
(***************************************************************************)

\* The characters process_content consumed last are those of tok.  An escape
\* marker is never inside a match, so a tok that is one whole escape
\* sequence was matched and processed as that sequence.
Processed(tok) ==
    i >= Len(tok) /\ SubSeq(content, i - Len(tok) + 1, i) = tok

\* The escape sequence tok was processed and then the character ch, which
\* is printable, was written.
Wrote(tok, ch) == Processed(tok \o << ch >>)

\* The loop stands before the characters of tok.
AtToken(tok) ==
    /\ pc = "run"
    /\ i + Len(tok) <= Len(content)
    /\ SubSeq(content, i + 1, i + Len(tok)) = tok

\* The next pass of the loop writes a printable character.
WritesPrintable ==
    InLoop /\ ~AtSequence /\ content[i + 1] # ESC /\ Ord(content[i + 1]) >= 32

\* C1: the cursor row and the cursor column are never negative, whatever
\* the input: Cursor Up and Cursor Backward past the origin, and a position
\* or column parameter of 0, leave the coordinate at 0.
C1_CursorNeverNegative == cursor_row >= 0 /\ cursor_col >= 0

\* Cursor Up by 9 from row 1 of a grid of three rows has ended in row 0.
C1_Witness ==
    /\ Processed(Csi(<< "9" >>, "A"))
    /\ Len(screen) = 3
    /\ cursor_row = 0
    /\ cursor_col = 1

\* C2: the grid is rectangular: every row has exactly max_cols cells, rows
\* made before a widening, after a widening and after a full clear alike.
C2_GridRectangular == \A r \in 1..Len(screen) : Len(screen[r]) = max_cols

\* The grid was widened when it had two rows, and a newline then made a third.
C2_Witness ==
    /\ Processed(<< "\n" >>)
    /\ max_cols > InitMaxCols
    /\ Len(screen) = 3
    /\ screen[1][1] = "A"
    /\ cursor_row = 2

\* C3: a printable character written with the cursor at or beyond the
\* height or the width of the grid makes the grid grow: the cell under the
\* cursor then holds the character, every cell there was keeps its content
\* at every other position, and the cells added are spaces.
C3_GrowthKeepsCells ==
    [][ (WritesPrintable /\ (cursor_row >= Len(screen) \/ cursor_col >= max_cols)) =>
            /\ cursor_row < Len(screen')
            /\ cursor_col < Len(screen'[cursor_row + 1])
            /\ screen'[cursor_row + 1][cursor_col + 1] = content[i + 1]
            /\ Len(screen') >= Len(screen)
            /\ \A r \in 1..Len(screen) : Len(screen'[r]) >= Len(screen[r])
            /\ \A r \in 1..Len(screen') : \A c \in 1..Len(screen'[r]) :
                   (r - 1 # cursor_row \/ c - 1 # cursor_col) =>
                       screen'[r][c] = IF r <= Len(screen) /\ c <= Len(screen[r])
                                       THEN screen[r][c]
                                       ELSE " "
      ]_vars

\* "A" was written into the last column of a fresh-width grid, and the next
\* "A" into the column beyond it, which widened the grid.
C3_Witness ==
    /\ Processed(<< "A" >>)
    /\ max_cols = InitMaxCols + ColBuffer
    /\ cursor_col = InitMaxCols + 1
    /\ screen[1][InitMaxCols] = "A"
    /\ screen[1][InitMaxCols + 1] = "A"

\* The parameter strings of Cursor Position that stand for row r, column c
\* (1-based): both written out, or one or both left out where it is 1.
PositionForms(r, c) ==
    { Decimal(r) \o << ";" >> \o Decimal(c) }
        \cup (IF r = 1 THEN { << ";" >> \o Decimal(c) } ELSE {})
        \cup (IF c = 1 THEN { Decimal(r), Decimal(r) \o << ";" >> } ELSE {})
        \cup (IF r = 1 /\ c = 1 THEN { << >>, << ";" >> } ELSE {})

\* C4: after ESC[r;cH or ESC[r;cf with r >= 1 and c >= 1, a printable
\* character written next lands in cell (r-1, c-1); a row or a column left
\* out counts as 1.
C4_PositionThenWrite ==
    \A r \in 1..3 : \A c \in (1..3) \cup {InitMaxCols + 1} :
        \A p \in PositionForms(r, c) : \A l \in {"H", "f"} : \A ch \in {"A", "B", NBSP} :
            Wrote(Csi(p, l), ch) =>
                /\ Len(screen) >= r
                /\ screen[r][c] = ch
                /\ cursor_row = r - 1
                /\ cursor_col = c

\* ESC[;3H then "B", on a grid that had rows: "B" is in row 0, column 2.
C4_Witness ==
    /\ Wrote(Csi(<< ";", "3" >>, "H"), "B")
    /\ Len(screen) >= 2
    /\ screen[1][3] = "B"
    /\ cursor_row = 0
    /\ cursor_col = 3

\* C5: ESC[2J discards what was there: the grid then has no rows and the
\* cursor is (0,0), finalization right then gives the empty string, and a
\* character written next lands in row 0, column 0; "Hello" ESC[2J " World"
\* gives " World".
C5_FullErase ==
    /\ Processed(Csi(<< "2" >>, "J")) =>
           /\ screen = << >>
           /\ cursor_row = 0
           /\ cursor_col = 0
           /\ pc = "done" => result = << >>
    /\ \A ch \in {"A", "B", " ", NBSP} :
           Wrote(Csi(<< "2" >>, "J"), ch) =>
               /\ Len(screen) = 1
               /\ screen[1][1] = ch
               /\ \A c \in 2..Len(screen[1]) : screen[1][c] = " "
               /\ cursor_row = 0
               /\ cursor_col = 1
    /\ (content = HelloWorld /\ pc = "done") => result = << " ", "W", "o", "r", "l", "d" >>

\* Two rows of text, ESC[2J, then "B": one row, "B" in its first cell.
C5_Witness ==
    /\ Wrote(Csi(<< "2" >>, "J"), "B")
    /\ SubSeq(content, 1, 3) = << "A", "B", "\n" >>
    /\ Len(screen) = 1
    /\ screen[1][1] = "B"

\* C6, as claimed: "A" ESC[2K " B" gives the final text " B".
C6_AsClaimed ==
    (content = LineClear /\ pc = "done") => result = << " ", "B" >>

\* C6, amended: ESC[2K blanks the whole line and leaves the cursor in
\* column 1, " B" is then written into columns 1 and 2, and the final text
\* of "A" ESC[2K " B" is two spaces and "B": column 0 is blank as well.
C6_ClearLineKeepsCursor ==
    /\ (content = LineClear /\ Processed(<< "A" >> \o Csi(<< "2" >>, "K")) /\ i = 5) =>
           /\ cursor_row = 0
           /\ cursor_col = 1
           /\ Len(screen) = 1
           /\ \A c \in 1..Len(screen[1]) : screen[1][c] = " "
    /\ (content = LineClear /\ pc = "done") =>
           /\ screen[1][1] = " " /\ screen[1][2] = " " /\ screen[1][3] = "B"
           /\ result = << " ", " ", "B" >>

\* "A" ESC[2K " B" has been processed to its end.
C6_Witness ==
    /\ content = LineClear
    /\ pc = "done"
    /\ cursor_col = 3

\* C7: a printable write replaces exactly the cell under the cursor, keeps
\* the length of the row (unless the grid grows) and moves the cursor one
\* column on, so text written over older text replaces it cell by cell:
\* "Line1" ESC[1;1H "Line2" gives "Line2".
C7_WriteReplacesOneCell ==
    /\ [][ WritesPrintable =>
               /\ cursor_row' = cursor_row
               /\ cursor_col' = cursor_col + 1
               /\ screen'[cursor_row + 1][cursor_col + 1] = content[i + 1]
               /\ \A r \in 1..Len(screen) : \A c \in 1..Len(screen[r]) :
                      (r - 1 # cursor_row \/ c - 1 # cursor_col) => screen'[r][c] = screen[r][c]
               /\ \A r \in 1..Len(screen) :
                      max_cols' = max_cols => Len(screen'[r]) = Len(screen[r])
         ]_vars
    /\ []((content = LineOverwrite /\ pc = "done") => result = << "L", "i", "n", "e", "2" >>)

\* "Line1" ESC[1;1H "Line2" has been processed to its end.
C7_Witness ==
    /\ content = LineOverwrite
    /\ pc = "done"
    /\ cursor_col = 5
    /\ screen[1][5] = "2"

\* The lines of a text: its pieces between newlines.
RECURSIVE LinesOf(_)
LinesOf(t) ==
    IF \E k \in 1..Len(t) : t[k] = "\n"
    THEN LET k == CHOOSE k \in 1..Len(t) : t[k] = "\n" /\ \A q \in 1..(k - 1) : t[q] # "\n"
         IN  << SubSeq(t, 1, k - 1) >> \o LinesOf(SubSeq(t, k + 1, Len(t)))
    ELSE << t >>

\* t is the final text of grid scr when the cells that count as empty, and
\* that are removed at the end of a line, are those holding a character of
\* the set empty: no text when every cell is empty; otherwise one line for
\* each row up to the last row with a cell that is not empty, each line the
\* row without its trailing empty cells, the last line not empty, and no
\* newline at the end.
IsFinalText(t, scr, empty) ==
    LET full == { r \in 1..Len(scr) : \E c \in 1..Len(scr[r]) : scr[r][c] \notin empty }
    IN  IF full = {} THEN t = << >>
        ELSE LET last == CHOOSE r \in full : \A q \in full : q <= r
                 lines == LinesOf(t)
             IN  /\ Len(lines) = last
                 /\ \A k \in 1..last :
                        /\ Len(lines[k]) <= Len(scr[k])
                        /\ lines[k] = SubSeq(scr[k], 1, Len(lines[k]))
                        /\ \A c \in (Len(lines[k]) + 1)..Len(scr[k]) : scr[k][c] \in empty
                        /\ lines[k] # << >> => lines[k][Len(lines[k])] \notin empty
                 /\ lines[last] # << >>
                 /\ t[Len(t)] # "\n"

\* C8, as claimed: only a space is an empty cell, and only trailing spaces
\* are removed from a line.
C8_AsClaimed == pc = "done" => IsFinalText(result, screen, {" "})

\* C8, amended: get_final_text gives the text described with every
\* whitespace character (what str.rstrip() removes, U+00A0 included)
\* counting as empty: a row holding nothing but whitespace gives an empty
\* line, and is dropped when no row with other characters follows it.
C8_FinalText == pc = "done" => IsFinalText(result, screen, Whitespace)

\* The second row holds a no-break space and nothing else; the text is "A".
C8_Witness ==
    /\ pc = "done"
    /\ Len(screen) = 2
    /\ screen[2][1] = NBSP
    /\ result = << "A" >>

MalformedTexts == { << "1", ";", "2" >>, << ";" >> }

AtMalformed ==
    \E c \in NumericCommands : \E p \in MalformedTexts : AtToken(Csi(p, c))

\* C10: a numeric field that is there and is no integer ends the run at
\* that sequence: no default is taken, grid and cursor stay as they are,
\* nothing after it is processed and no text is returned; a field that is
\* absent does not end the run.
C10_MalformedEndsRun ==
    /\ [][ /\ AtMalformed =>
                  (pc' = "failed" /\ grid' = grid /\ i' = i /\ result' = None)
           /\ (\E c \in NumericCommands : AtToken(Csi(<< >>, c))) =>
                  (pc' = "run" /\ i' = i + 3)
           /\ pc = "failed" => FALSE
         ]_vars
    /\ [](pc = "failed" => (result = None /\ text = None))

\* The run ended at ESC[1;2A with "B" behind it unprocessed.
C10_Witness ==
    /\ pc = "failed"
    /\ i + 7 = Len(content)
    /\ SubSeq(content, i + 1, i + 7) = Csi(<< "1", ";", "2" >>, "A") \o << "B" >>
    /\ Len(screen) = 2

\* The escape sequences of the grammar, said directly: ESC [ then digits and
\* ';' then a letter; the same with '?' after the '['; ESC ( then A, B or 0.
IsSequenceText(s) ==
    \/ /\ Len(s) >= 3
       /\ s[1] = ESC /\ s[2] = "["
       /\ s[Len(s)] \in Letters
       /\ \A k \in 3..(Len(s) - 1) : s[k] \in DigitsSemi
    \/ /\ Len(s) >= 4
       /\ s[1] = ESC /\ s[2] = "[" /\ s[3] = "?"
       /\ s[Len(s)] \in Letters
       /\ \A k \in 4..(Len(s) - 1) : s[k] \in DigitsSemi
    \/ /\ Len(s) = 3
       /\ s[1] = ESC /\ s[2] = "("
       /\ s[3] \in {"A", "B", "0"}

\* Some sequence of the grammar starts where the loop stands.
StartsSequence ==
    \E n \in 1..(Len(content) - i) : IsSequenceText(SubSeq(content, i + 1, i + n))

AtUnmatchedMarker == InLoop /\ content[i + 1] = ESC /\ ~StartsSequence

\* C11: an escape marker that starts no sequence of the grammar, the last
\* character of the input included, is no error: the pass of the loop that
\* meets it moves one character on and leaves grid and cursor alone; every
\* character that is no marker is processed alone, one pass each, a
\* printable one landing in the cell under the cursor; the run fails only
\* where a sequence starts; and ESC[12 at the end of the input leaves the
\* characters [12 left of the cursor.
C11_UnmatchedMarkerSkipped ==
    /\ [][ /\ AtUnmatchedMarker =>
                  (grid' = grid /\ i' = i + 1 /\ pc' = "run" /\ result' = None)
           /\ (InLoop /\ content[i + 1] # ESC) =>
                  /\ i' = i + 1 /\ pc' = "run"
                  /\ Ord(content[i + 1]) >= 32 =>
                         /\ screen'[cursor_row + 1][cursor_col + 1] = content[i + 1]
                         /\ cursor_col' = cursor_col + 1
           /\ pc' = "failed" => StartsSequence
         ]_vars
    /\ []((Processed(<< ESC, "[", "1", "2" >>) /\ i = Len(content)) =>
              /\ cursor_col >= 3
              /\ SubSeq(screen[cursor_row + 1], cursor_col - 2, cursor_col)
                     = << "[", "1", "2" >>)

\* The input A ESC[12 has been processed to its end and gave the text A[12.
C11_Witness ==
    /\ pc = "done"
    /\ content = << "A", ESC, "[", "1", "2" >>
    /\ result = << "A", "[", "1", "2" >>
    /\ cursor_row = 0 /\ cursor_col = 4

(***************************************************************************)
(* process_content as a function of its input, to set the run on one input *)
(* against the run on another.                                             *)
(***************************************************************************)
\* ANSIProcessor(): the emulator as constructed
ANSIProcessor ==
    [screen |-> << >>, cursor_row |-> 0, cursor_col |-> 0, max_cols |-> InitMaxCols]

\* process_escape_sequence(sequence) on the emulator st: the emulator it
\* leaves, or raised when an int() of the branch taken raises ValueError.
process_escape_sequence(st, seq) ==
    LET csi == Tail(seq)
        letter == csi[Len(csi)]
        ptext == SubSeq(csi, 1, Len(csi) - 1)
        params == IF ptext # << >> THEN Split(ptext) ELSE << << "1" >>, << "1" >> >>
        rowt == IF params[1] # << >> THEN params[1] ELSE << "1" >>
        colt == IF Len(params) > 1 /\ params[2] # << >> THEN params[2] ELSE << "1" >>
        n(default) == IF ptext # << >> THEN ParseInt(ptext) ELSE default
        returns(after) == [raised |-> FALSE, st |-> after]
        raises == [raised |-> TRUE, st |-> st]
    IN  IF seq[1] # "[" THEN returns(st)
        ELSE IF letter \in {"H", "f"}
        THEN IF IsInt(rowt) /\ IsInt(colt)
             THEN returns(set_cursor(st, ParseInt(rowt) - 1, ParseInt(colt) - 1))
             ELSE raises
        ELSE IF letter \in NumericCommands
        THEN IF ptext # << >> /\ ~IsInt(ptext)
             THEN raises
             ELSE CASE letter = "A" -> returns(move_cursor_up(st, n(1)))
                    [] letter = "B" -> returns(move_cursor_down(st, n(1)))
                    [] letter = "C" -> returns(move_cursor_forward(st, n(1)))
                    [] letter = "D" -> returns(move_cursor_backward(st, n(1)))
                    [] letter = "G" -> returns(move_to_column(st, n(1)))
                    [] letter = "K" -> returns(clear_line(st, n(0)))
                    [] letter = "J" -> returns(clear_screen(st, n(0)))
        ELSE returns(st)

\* The loop of process_content from index k on, the emulator being st
RECURSIVE Scan(_, _, _)
Scan(st, c, k) ==
    IF k >= Len(c) THEN [raised |-> FALSE, st |-> st]
    ELSE LET n == IF c[k + 1] = ESC /\ k + 1 < Len(c)
                  THEN ReMatch(SubSeq(c, k + 1, Len(c)))
                  ELSE 0
         IN  IF n > 0
             THEN LET r == process_escape_sequence(st, SubSeq(c, k + 2, k + n))
                  IN  IF r.raised THEN r ELSE Scan(r.st, c, k + n)
             ELSE IF c[k + 1] # ESC
             THEN Scan(insert_text(st, c[k + 1]), c, k + 1)
             ELSE Scan(st, c, k + 1)

\* What a call that raised has returned: no text either.
ValueError == << "ValueError" >>

\* ANSIProcessor().process_content(c)
process_content(c) ==
    LET r == Scan(ANSIProcessor, c, 0)
    IN  IF r.raised THEN ValueError ELSE get_final_text(r.st.screen)

\* The sequences that are recognized and discarded, said directly: ESC [
\* digits and ';' m; ESC [ ? digits and ';' then h or l; ESC ( A, B or 0.
IsDiscardedText(s) ==
    \/ /\ Len(s) >= 3
       /\ s[1] = ESC /\ s[2] = "[" /\ s[Len(s)] = "m"
       /\ \A k \in 3..(Len(s) - 1) : s[k] \in DigitsSemi
    \/ /\ Len(s) >= 4
       /\ s[1] = ESC /\ s[2] = "[" /\ s[3] = "?" /\ s[Len(s)] \in {"h", "l"}
       /\ \A k \in 4..(Len(s) - 1) : s[k] \in DigitsSemi
    \/ /\ Len(s) = 3
       /\ s[1] = ESC /\ s[2] = "(" /\ s[3] \in {"A", "B", "0"}

\* c without the n characters behind its first j
Removal(c, j, n) == SubSeq(c, 1, j) \o SubSeq(c, j + n + 1, Len(c))

\* The places (j, n) of content where a discarded sequence of n characters
\* stands behind the first j characters
DiscardedPlaces ==
    { q \in (0..Len(content)) \X (1..Len(content)) :
        /\ q[1] + q[2] <= Len(content)
        /\ IsDiscardedText(SubSeq(content, q[1] + 1, q[1] + q[2])) }

\* Taking the n characters behind the first j out of c joins the start of a
\* sequence that ends c's first j characters to characters that finish it.
Joins(c, j, n) ==
    \E k \in 1..j : \E m \in (j + n + 1)..Len(c) :
        IsSequenceText(SubSeq(c, k, j) \o SubSeq(c, j + n + 1, m))

\* Every pass of the loop that stands before a discarded sequence consumes
\* all of it, does not fail and leaves grid, cursor and max_cols alone.
DiscardedIsNoOp ==
    \A n \in 1..(Len(content) - i) :
        (pc = "run" /\ IsDiscardedText(SubSeq(content, i + 1, i + n))) =>
            (grid' = grid /\ i' = i + n /\ pc' = "run")

\* C12 as claimed: a discarded sequence is a no-op, and the text returned is
\* the text returned for the input without it, wherever it stands.
C12_AsClaimed ==
    /\ [][DiscardedIsNoOp]_vars
    /\ [](pc = "done" =>
             \A q \in DiscardedPlaces :
                 result = process_content(Removal(content, q[1], q[2])))

\* C12: a discarded sequence (ESC[...m, ESC[?...h, ESC[?...l, ESC(A, ESC(B,
\* ESC(0) is consumed whole, never fails, writes nothing and leaves grid,
\* cursor and max_cols alone; the text returned is the text returned for
\* the input without the sequence, unless taking it out joins the start of
\* a sequence before it to characters behind it that finish that sequence;
\* process_content the function returns what the run returns.
C12_DiscardedIsNoOp ==
    /\ [][DiscardedIsNoOp]_vars
    /\ [](pc = "done" =>
             /\ result = process_content(content)
             /\ \A q \in DiscardedPlaces :
                    ~Joins(content, q[1], q[2]) =>
                        result = process_content(Removal(content, q[1], q[2])))
    /\ [](pc = "failed" => process_content(content) = ValueError)

\* A ESC[31m B has been processed and gave AB, the text of the input AB.
C12_Witness ==
    /\ pc = "done"
    /\ content = << "A" >> \o Csi(<< "3", "1" >>, "m") \o << "B" >>
    /\ result = << "A", "B" >>
    /\ result = process_content(<< "A", "B" >>)

\* What is left of a row of the grid after Erase In Line with the given
\* mode, the cursor being in column col (0-based): the cell in 0-based
\* column k - 1 is blank or as it was.
ErasedRow(row, mode, col) ==
    [k \in 1..Len(row) |->
        IF \/ mode = 0 /\ k - 1 >= col
           \/ mode = 1 /\ k - 1 <= col
           \/ mode = 2
        THEN " "
        ELSE row[k]]

\* The pass of the loop over ESC[<p>K, which asks for the given mode
EraseInLineStep(p, mode) ==
    AtToken(Csi(p, "K")) =>
        /\ pc' = "run" /\ i' = i + Len(p) + 3
        /\ cursor_row' = cursor_row /\ cursor_col' = cursor_col
        /\ max_cols' = max_cols
        /\ Len(screen') = Len(screen)
        /\ \A r \in 1..Len(screen) :
               screen'[r] = IF r = cursor_row + 1
                            THEN ErasedRow(screen[r], mode, cursor_col)
                            ELSE screen[r]

\* C13: Erase In Line, ESC[K and ESC[0K for mode 0, ESC[1K, ESC[2K, from
\* every state reached: mode 0 blanks the cursor row from the cursor column
\* to its end, mode 1 from column 0 through the cursor column, mode 2 all of
\* it; nothing changes when the cursor row is no row of the grid; cursor,
\* row count and all other rows stay as they are.
C13_EraseInLine ==
    [][ /\ EraseInLineStep(<< >>, 0)
        /\ EraseInLineStep(<< "0" >>, 0)
        /\ EraseInLineStep(<< "1" >>, 1)
        /\ EraseInLineStep(<< "2" >>, 2)
        /\ \A p \in { << >>, << "0" >>, << "1" >>, << "2" >> } :
               (AtToken(Csi(p, "K")) /\ cursor_row >= Len(screen)) => grid' = grid
      ]_vars

\* ESC[1K was processed with the cursor on the B of the row ABA: the A
\* behind the cursor is all that is left of the row.
C13_Witness ==
    /\ Processed(Csi(<< "1" >>, "K"))
    /\ cursor_row = 0 /\ cursor_col = 1
    /\ SubSeq(screen[1], 1, 3) = << " ", " ", "A" >>

AtRowKeeper ==
    \/ \E p \in { << >>, << "0" >>, << "2" >>, << "9" >> } :
           AtToken(Csi(p, "A")) \/ AtToken(Csi(p, "D"))
    \/ \E p \in { << >>, << "0" >>, << "1" >>, << "2" >>, << "3" >> } :
           AtToken(Csi(p, "K"))
    \/ AtToken(<< "\r" >>)

\* C15: in every step of every run the grid has afterwards at least the
\* rows it had, unless the step is the full-screen clear ESC[2J, after
\* which it has none; Cursor Up, Cursor Backward, carriage return, Erase In
\* Line, the return of the text and a later get_final_text leave the number
\* of rows as it is.
C15_RowCountOnlyGrows ==
    [][ /\ \/ Len(screen') >= Len(screen)
           \/ AtToken(Csi(<< "2" >>, "J")) /\ Len(screen') = 0
        /\ AtToken(Csi(<< "2" >>, "J")) => Len(screen') = 0
        /\ (AtRowKeeper \/ pc = "done" \/ pc' = "done") => Len(screen') = Len(screen)
      ]_vars

\* ESC[2J was processed on a grid of three rows and has left none; then B
\* was written and there is one.
C15_Witness ==
    /\ Wrote(Csi(<< "2" >>, "J"), "B")
    /\ Len(content) > 6
    /\ SubSeq(content, 1, 6) = << "A", "\n", "B", "\n", "A", "B" >>
    /\ Len(screen) = 1

\* What a pass of the loop adds to the index: the length of the sequence of
\* the grammar that starts where the loop stands, one where none does.
Advance ==
    IF StartsSequence
    THEN CHOOSE n \in 1..(Len(content) - i) :
             IsSequenceText(SubSeq(content, i + 1, i + n))
    ELSE 1

C17_TabStop ==
    [][ AtToken(<< "\t" >>) =>
            /\ cursor_col' = ((cursor_col \div 8) + 1) * 8
            /\ cursor_col' % 8 = 0
            /\ cursor_col' > cursor_col /\ cursor_col' <= cursor_col + 8
            /\ (cursor_col % 8 = 0) => cursor_col' = cursor_col + 8
            /\ cursor_row' = cursor_row
            /\ Len(screen') >= Len(screen)
            /\ cursor_row < Len(screen')
            /\ cursor_col' < Len(screen'[cursor_row + 1])
            /\ \A r \in 1..Len(screen') : \A c \in 1..Len(screen'[r]) :
                   screen'[r][c] = IF r <= Len(screen) /\ c <= Len(screen[r])
                                   THEN screen[r][c]
                                   ELSE " "
            /\ pc' = "run" /\ i' = i + 1
      ]_vars

\* A tab was processed behind an A in the last column of a fresh grid: the
\* cursor is in column 208 of a grid that was widened, the A still in 199.
C17_Witness ==
    /\ Processed(Csi(LastColText, "G") \o << "A", "\t" >>)
    /\ cursor_row = 0 /\ cursor_col = 208
    /\ max_cols > InitMaxCols
    /\ Len(screen[1]) > 208
    /\ screen[1][200] = "A"

\* The cursor is tied to the grid: at (0,0) when the grid has no row, else
\* on a row of the grid and in a column of it or in the first one behind.
CursorTiedToGrid ==
    /\ Len(screen) = 0 => (cursor_row = 0 /\ cursor_col = 0)
    /\ Len(screen) > 0 => (cursor_row < Len(screen) /\ cursor_col <= max_cols)

\* The next pass of the loop writes a printable character into the last
\* column of the grid.
WritesIntoLastColumn ==
    WritesPrintable /\ cursor_row < Len(screen) /\ cursor_col = max_cols - 1

\* The cells insert_text and clear_line touch in a pass of the loop are
\* cells of the grid: the cell written, after the grid was grown for it, and
\* the columns blanked in the cursor row.
AccessesInBounds ==
    /\ WritesPrintable =>
           /\ cursor_row < Len(screen')
           /\ cursor_col < Len(screen'[cursor_row + 1])
    /\ \A p \in { << >>, << "0" >>, << "1" >>, << "2" >>, << "3" >> } :
           (AtToken(Csi(p, "K")) /\ cursor_row < Len(screen)) =>
               \A mode \in 0..3 :
                   ClearedColumns(mode, cursor_col, Len(screen[cursor_row + 1]))
                       \subseteq 0..(Len(screen[cursor_row + 1]) - 1)

\* C18 as claimed: the cursor is tied to the grid, and the cursor column is
\* max_cols only in the state right behind a write into the last column:
\* no other pass of the loop ends with the cursor column at max_cols.
C18_AsClaimed ==
    /\ [][ /\ (InLoop /\ cursor_col' = max_cols') => WritesIntoLastColumn
           /\ AccessesInBounds
         ]_vars
    /\ []CursorTiedToGrid

\* C18: in every state reached from a fresh emulator the cursor is at (0,0)
\* when the grid has no row, and else cursor_row is below the row count and
\* cursor_col is at most max_cols; cursor_col comes to be max_cols only by a
\* write into the last column, and is max_cols later only while no step has
\* changed it or max_cols; every cell insert_text and clear_line touch is a
\* cell of the grid.
C18_CursorTiedToGrid ==
    /\ [][ /\ cursor_col' = max_cols' =>
                  \/ WritesIntoLastColumn
                  \/ cursor_col = max_cols /\ max_cols' = max_cols
           /\ AccessesInBounds
         ]_vars
    /\ []CursorTiedToGrid

\* A was written into the last column and ESC[m processed behind it: the
\* cursor column is max_cols, and the last step was no write.
C18_Witness ==
    /\ Processed(Csi(LastColText, "G") \o << "A" >> \o Csi(<< >>, "m"))
    /\ Len(screen) = 1
    /\ cursor_col = max_cols
    /\ screen[1][max_cols] = "A"

\* The letters whose branch of process_escape_sequence hands text to int():
\* H, f, A, B, C, D, G, K, J
CommandLetters == {"H", "f"} \cup NumericCommands

\* C19: a CSI sequence whose parameters begin with '?' never moves the
\* cursor and never alters the grid: with one of the letters H, f, A, B, C,
\* D, G, K, J the run fails at the sequence, the index still before it and
\* grid, cursor and max_cols as they were, no text returned; with another
\* letter the sequence is consumed whole and nothing else changes.
C19_PrivateMarkNeverActs ==
    /\ [][ \A p \in PrivateTexts : \A c \in Letters :
               AtToken(Csi(p, c)) =>
                   /\ grid' = grid
                   /\ IF c \in CommandLetters
                      THEN pc' = "failed" /\ i' = i /\ result' = None
                      ELSE pc' = "run" /\ i' = i + Len(p) + 3
         ]_vars
    /\ [](pc = "failed" => result = None)

\* The run ended at ESC[?2J on a grid of two rows, which are still there.
C19_Witness ==
    /\ pc = "failed"
    /\ i + 5 <= Len(content)
    /\ SubSeq(content, i + 1, i + 5) = Csi(<< "?", "2" >>, "J")
    /\ Len(screen) = 2
    /\ SubSeq(screen[1], 1, 2) = << "A", "B" >>
    /\ cursor_row = 1 /\ cursor_col = 3

\* C20: a CSI sequence ESC[<params><letter> whose letter is none of H, f, A,
\* B, C, D, G, K, J, m is consumed whole in one pass of the loop and
\* ignored: the run goes on behind it whatever digits and ';' it carries,
\* grid, cursor and max_cols are as before, so none of its characters has
\* been written, and the text behind it is written where the cursor was.
C20_UnknownLetterIgnored ==
    [][ /\ \A q \in IgnoredTexts : \A c \in Letters \ (CommandLetters \cup {"m"}) :
               AtToken(Csi(q, c)) =>
                   (grid' = grid /\ pc' = "run" /\ i' = i + Len(q) + 3)
        /\ \A q \in IgnoredTexts : \A c \in IgnoredLetters :
               (Wrote(Csi(q, c), "B")' /\ i' = i + 1) =>
                   /\ screen'[cursor_row + 1][cursor_col + 1] = "B"
                   /\ cursor_row' = cursor_row /\ cursor_col' = cursor_col + 1
      ]_vars

\* ESC[1;5r and then B were processed behind two rows of text: the B stands
\* right behind the text of the second row.
C20_Witness ==
    /\ Wrote(Csi(<< "1", ";", "5" >>, "r"), "B")
    /\ Len(screen) = 2
    /\ SubSeq(screen[2], 1, 5) = << "A", " ", "B", "B", " " >>
    /\ cursor_row = 1 /\ cursor_col = 4
====
